---- MODULE Spec2Model ----
(***************************************************************************)
(* hacking/checks/except_checks.py: the three flake8 logical-line rules    *)
(* H201, H202 and H203, the NoneArgChecker node visitor and is_none.       *)
(*                                                                         *)
(* A logical line is kept as the sequence of its lexical tokens; Text      *)
(* spells it out as the character string the rules receive, and every      *)
(* string operation of the code (startswith, re.search, str.index) works   *)
(* on those characters.  ast.parse is a recursive-descent parser of the    *)
(* expression-statement subset of Python the lines are written in.         *)
(***************************************************************************)
EXTENDS Integers, Sequences, FiniteSets, TLC

VARIABLES PY2, logical_line, noqa, rule, pc, func_idx, checker, out, raised,
          parses, ret, subject, memo

vars == <<PY2, logical_line, noqa, rule, pc, func_idx, checker, out, raised,
          parses, ret, subject, memo>>

(***************************************************************************)
(* Characters of a token.                                                  *)
(***************************************************************************)
Chars(t) ==
    CASE t = "self" -> <<"s","e","l","f">>
      [] t = "cls" -> <<"c","l","s">>
      [] t = "myself" -> <<"m","y","s","e","l","f">>
      [] t = "." -> <<".">>
      [] t = "(" -> <<"(">>
      [] t = ")" -> <<")">>
      [] t = "," -> <<",">>
      [] t = " " -> <<" ">>
      [] t = ";" -> <<";">>
      [] t = ":" -> <<":">>
      [] t = "=" -> <<"=">>
      [] t = "{" -> <<"{">>
      [] t = "}" -> <<"}">>
      [] t = "[" -> <<"[">>
      [] t = "]" -> <<"]">>
      [] t = "None" -> <<"N","o","n","e">>
      [] t = "'foo'" -> <<"'","f","o","o","'">>
      [] t = "'bar'" -> <<"'","b","a","r","'">>
      [] t = "'k'" -> <<"'","k","'">>
      [] t = "'.assertIs('" -> <<"'",".","a","s","s","e","r","t","I","s","(","'">>
      [] t = "a" -> <<"a">>
      [] t = "b" -> <<"b">>
      [] t = "d" -> <<"d">>
      [] t = "x" -> <<"x">>
      [] t = "foo" -> <<"f","o","o">>
      [] t = "get" -> <<"g","e","t">>
      [] t = "except" -> <<"e","x","c","e","p","t">>
      [] t = "Exception" -> <<"E","x","c","e","p","t","i","o","n">>
      [] t = "NovaException" -> <<"N","o","v","a","E","x","c","e","p","t","i","o","n">>
      [] t = "ExceptionStrangeNotation" -> <<"E","x","c","e","p","t","i","o","n","S","t","r","a","n","g","e","N","o","t","a","t","i","o","n">>
      [] t = "assertRaises" -> <<"a","s","s","e","r","t","R","a","i","s","e","s">>
      [] t = "assertEqual" -> <<"a","s","s","e","r","t","E","q","u","a","l">>
      [] t = "assertIs" -> <<"a","s","s","e","r","t","I","s">>
      [] t = "assertNotEqual" -> <<"a","s","s","e","r","t","N","o","t","E","q","u","a","l">>
      [] t = "assertIsNot" -> <<"a","s","s","e","r","t","I","s","N","o","t">>
      [] t = "assertIsNone" -> <<"a","s","s","e","r","t","I","s","N","o","n","e">>
      [] t = "pass" -> <<"p","a","s","s">>
      [] t = "try" -> <<"t","r","y">>

RECURSIVE Text(_)
\* The character string of a token sequence.
Text(toks) ==
    IF toks = <<>> THEN <<>> ELSE Chars(Head(toks)) \o Text(Tail(toks))

(***************************************************************************)
(* String operations of the Python runtime.                                *)
(***************************************************************************)
\* s[p:p+len(sub)] == sub, p counted from 0
MatchAt(s, sub, p) ==
    /\ p + Len(sub) <= Len(s)
    /\ \A j \in 1..Len(sub) : s[p + j] = sub[j]

\* str.startswith
startswith(s, prefix) == MatchAt(s, prefix, 0)

RECURSIVE ScanFrom(_, _, _)
ScanFrom(s, sub, p) ==
    IF p + Len(sub) > Len(s) THEN -1
    ELSE IF MatchAt(s, sub, p) THEN p
    ELSE ScanFrom(s, sub, p + 1)

\* str.index: the lowest 0-based position of sub in s; -1 stands for ValueError
str_index(s, sub) == ScanFrom(s, sub, 0)

\* re.Pattern.search for a pattern that is a sequence of character classes
RECURSIVE re_search_from(_, _, _)
re_search_from(pattern, s, p) ==
    IF p + Len(pattern) > Len(s) THEN FALSE
    ELSE IF \A j \in 1..Len(pattern) : s[p + j] \in pattern[j] THEN TRUE
    ELSE re_search_from(pattern, s, p + 1)

re_search(pattern, s) == re_search_from(pattern, s, 0)

\* a literal string as a pattern
Literal(s) == [j \in 1..Len(s) |-> {s[j]}]

(***************************************************************************)
(* Module constants.                                                       *)
(***************************************************************************)
\* mutant: the pattern without its closing character class
RE_ASSERT_RAISES_EXCEPTION_Open ==
    Literal(Text(<<"self", ".", "assertRaises", "(", "Exception">>))

\* r"self\.assertRaises\(Exception[,\)]"
RE_ASSERT_RAISES_EXCEPTION ==
    Literal(Text(<<"self", ".", "assertRaises", "(", "Exception">>))
        \o << {",", ")"} >>

H201 == "H201: no 'except:' at least use 'except Exception:'"
H202 == "H202: assertRaises Exception too broad"
H203 == "H203: Use assertIs(Not)None to check for None"

\* the tuple hacking_assert_is_none iterates over
FUNC_NAMES == <<"assertEqual", "assertIs", "assertNotEqual", "assertIsNot">>

(***************************************************************************)
(* Rules H201 and H202: the diagnostics each yields, as a sequence.        *)
(***************************************************************************)
\* mutant: "except:" looked for anywhere in the line
hacking_except_format_Anywhere(line, noqa_) ==
    IF noqa_ THEN <<>>
    ELSE IF str_index(Text(line), Text(<<"except", ":">>)) # -1 THEN << <<6, H201>> >>
    ELSE <<>>

hacking_except_format(line, noqa_) ==
    IF noqa_ THEN <<>>
    ELSE IF startswith(Text(line), Text(<<"except", ":">>)) THEN << <<6, H201>> >>
    ELSE <<>>

hacking_except_format_assert(line, noqa_) ==
    IF noqa_ THEN <<>>
    ELSE IF re_search(RE_ASSERT_RAISES_EXCEPTION, Text(line)) THEN << <<1, H202>> >>
    ELSE <<>>

(***************************************************************************)
(* ast nodes.                                                              *)
(***************************************************************************)
Module(body)          == [kind |-> "Module", body |-> body]
Expr(value)           == [kind |-> "Expr", value |-> value]
Pass                  == [kind |-> "Pass"]
Call(func, args, kws) == [kind |-> "Call", func |-> func, args |-> args,
                          keywords |-> kws]
Attribute(value, attr) == [kind |-> "Attribute", value |-> value, attr |-> attr]
Subscript(value, slice) == [kind |-> "Subscript", value |-> value, slice |-> slice]
Name(id)              == [kind |-> "Name", id |-> id]
NameConstant(value)   == [kind |-> "NameConstant", value |-> value]
Str(s)                == [kind |-> "Str", s |-> s]
Dict                  == [kind |-> "Dict"]
keyword(arg, value)   == [kind |-> "keyword", arg |-> arg, value |-> value]

\* identifiers, string literals and reserved words of the lexer
NAME_TOKENS == {"self", "cls", "myself", "a", "b", "d", "x", "foo", "get",
                "Exception", "NovaException", "ExceptionStrangeNotation",
                "assertRaises", "assertEqual", "assertIs", "assertNotEqual",
                "assertIsNot", "assertIsNone"}
STRING_TOKENS == {"'foo'", "'bar'", "'k'", "'.assertIs('"}

\* the node the parser builds for the token None: a Name in Python 2,
\* a NameConstant in Python 3
NoneNode == IF PY2 THEN Name("None") ELSE NameConstant("None")

(***************************************************************************)
(* ast.parse: a parse result is [ok, node, pos]; ok = FALSE is SyntaxError *)
(***************************************************************************)
Fail == [ok |-> FALSE]
Tok(toks, p) == IF p <= Len(toks) THEN toks[p] ELSE "<EOF>"

RECURSIVE ParseExpr(_, _), ParseTrailers(_, _, _), ParseArgs(_, _, _, _)

ParseAtom(toks, p) ==
    LET t == Tok(toks, p) IN
    IF t \in NAME_TOKENS THEN [ok |-> TRUE, node |-> Name(t), pos |-> p + 1]
    ELSE IF t = "None" THEN [ok |-> TRUE, node |-> NoneNode, pos |-> p + 1]
    ELSE IF t \in STRING_TOKENS THEN [ok |-> TRUE, node |-> Str(t), pos |-> p + 1]
    ELSE IF t = "{" /\ Tok(toks, p + 1) = "}"
        THEN [ok |-> TRUE, node |-> Dict, pos |-> p + 2]
    ELSE Fail

ParseExpr(toks, p) ==
    LET a == ParseAtom(toks, p) IN
    IF a.ok THEN ParseTrailers(toks, a.node, a.pos) ELSE Fail

ParseTrailers(toks, node, p) ==
    LET t == Tok(toks, p) IN
    IF t = "." THEN
        IF Tok(toks, p + 1) \in NAME_TOKENS
        THEN ParseTrailers(toks, Attribute(node, Tok(toks, p + 1)), p + 2)
        ELSE Fail
    ELSE IF t = "(" THEN
        LET r == ParseArgs(toks, p + 1, <<>>, <<>>) IN
        IF r.ok THEN ParseTrailers(toks, Call(node, r.args, r.keywords), r.pos)
        ELSE Fail
    ELSE IF t = "[" THEN
        LET r == ParseExpr(toks, p + 1) IN
        IF r.ok /\ Tok(toks, r.pos) = "]"
        THEN ParseTrailers(toks, Subscript(node, r.node), r.pos + 1)
        ELSE Fail
    ELSE [ok |-> TRUE, node |-> node, pos |-> p]

\* the arguments of a call from position p, up to and including the ")"
ParseArgs(toks, p, args, kws) ==
    IF Tok(toks, p) = ")"
    THEN [ok |-> TRUE, args |-> args, keywords |-> kws, pos |-> p + 1]
    ELSE
        LET iskw == Tok(toks, p) \in NAME_TOKENS /\ Tok(toks, p + 1) = "="
            r    == ParseExpr(toks, IF iskw THEN p + 2 ELSE p)
        IN
        IF ~r.ok THEN Fail
        \* positional argument follows keyword argument
        ELSE IF ~iskw /\ Len(kws) > 0 THEN Fail
        ELSE
            LET args2 == IF iskw THEN args ELSE Append(args, r.node)
                kws2  == IF iskw THEN Append(kws, keyword(Tok(toks, p), r.node))
                         ELSE kws
            IN
            IF Tok(toks, r.pos) = ","
            THEN ParseArgs(toks, r.pos + 1, args2, kws2)
            ELSE IF Tok(toks, r.pos) = ")"
            THEN [ok |-> TRUE, args |-> args2, keywords |-> kws2, pos |-> r.pos + 1]
            ELSE Fail

ParseStmt(toks, p) ==
    IF Tok(toks, p) = "pass" THEN [ok |-> TRUE, node |-> Pass, pos |-> p + 1]
    ELSE LET r == ParseExpr(toks, p) IN
         IF r.ok THEN [ok |-> TRUE, node |-> Expr(r.node), pos |-> r.pos] ELSE Fail

RECURSIVE ParseStmts(_, _, _)
ParseStmts(toks, p, body) ==
    LET r == ParseStmt(toks, p) IN
    IF ~r.ok THEN Fail
    ELSE IF r.pos > Len(toks)
    THEN [ok |-> TRUE, node |-> Module(Append(body, r.node))]
    ELSE IF Tok(toks, r.pos) = ";" THEN
        IF r.pos + 1 > Len(toks)
        THEN [ok |-> TRUE, node |-> Module(Append(body, r.node))]
        ELSE ParseStmts(toks, r.pos + 1, Append(body, r.node))
    ELSE Fail

\* ast.parse(logical_line): white space separates tokens and is dropped
ast_parse(line) ==
    ParseStmts(SelectSeq(line, LAMBDA t : t # " "), 1, <<>>)

(***************************************************************************)
(* is_none and NoneArgChecker.                                             *)
(***************************************************************************)
\* mutant: the Python 2 test whatever the dialect
is_none_Py2Only(node) == node.kind = "Name" /\ node.id = "None"

is_none(node) ==
    IF PY2 THEN node.kind = "Name" /\ node.id = "None"
    ELSE node.kind = "NameConstant" /\ node.value = "None"

\* mutant: none_found taken over from the previous checker
NoneArgChecker_Stale(func_name, num_args) ==
    [func_name |-> func_name, num_args |-> num_args,
     none_found |-> checker.none_found]

\* NoneArgChecker.__init__
NoneArgChecker(func_name, num_args) ==
    [func_name |-> func_name, num_args |-> num_args, none_found |-> FALSE]

\* ast.iter_child_nodes: the child nodes of a node, in field order
iter_child_nodes(node) ==
    CASE node.kind = "Module"    -> node.body
      [] node.kind = "Expr"      -> <<node.value>>
      [] node.kind = "Call"      -> <<node.func>> \o node.args \o node.keywords
      [] node.kind = "Attribute" -> <<node.value>>
      [] node.kind = "Subscript" -> <<node.value, node.slice>>
      [] node.kind = "keyword"   -> <<node.value>>
      [] OTHER                   -> <<>>

\* mutant: every positional argument is checked
args_to_check_All(args, num_args) == args

\* node.args[:num_args]
args_to_check(args, num_args) ==
    SubSeq(args, 1, IF num_args < Len(args) THEN num_args ELSE Len(args))

RECURSIVE visit(_, _), visit_each(_, _), generic_visit(_, _), visit_Call(_, _)

\* NodeVisitor.generic_visit: visit every child; self is the visitor's state
generic_visit(self, node) == visit_each(self, iter_child_nodes(node))

visit_each(self, nodes) ==
    IF Len(nodes) = 0 THEN self
    ELSE visit_each(visit(self, Head(nodes)), Tail(nodes))

\* mutant: only method calls are resolved, bare-name calls are skipped
visit_Call_AttributeOnly(self, node) ==
    LET local_func_name ==
            IF node.func.kind = "Attribute" THEN node.func.attr ELSE "<None>"
        checked ==
            IF local_func_name = self.func_name
            THEN LET a == args_to_check(node.args, self.num_args) IN
                 [self EXCEPT !.none_found =
                     @ \/ \E j \in 1..Len(a) : is_none(a[j])]
            ELSE self
    IN generic_visit(checked, node)

visit_Call(self, node) ==
    LET local_func_name ==
            IF node.func.kind = "Attribute" THEN node.func.attr
            ELSE IF node.func.kind = "Name" THEN node.func.id
            ELSE "<None>"
        checked ==
            IF local_func_name = self.func_name
            THEN LET a == args_to_check(node.args, self.num_args) IN
                 [self EXCEPT !.none_found =
                     @ \/ \E j \in 1..Len(a) : is_none(a[j])]
            ELSE self
    IN generic_visit(checked, node)

\* NodeVisitor.visit: dispatch on the node's class
visit(self, node) ==
    IF node.kind = "Call" THEN visit_Call(self, node)
    ELSE generic_visit(self, node)

\* '.%s(' % func_name
dotted(func_name) == <<".">> \o Chars(func_name) \o <<"(">>

(***************************************************************************)
(* The logical lines the host feeds to the rules.                          *)
(***************************************************************************)
MaxArgs  == 3   \* positional arguments of a generated call
MaxStmts == 2   \* statements of a generated line
MaxK     == 3   \* num_args of a NoneArgChecker built on its own

RECURSIVE CommaSep(_)
\* "x, y, z"
CommaSep(args) ==
    IF Len(args) = 0 THEN <<>>
    ELSE IF Len(args) = 1 THEN args[1]
    ELSE args[1] \o <<",", " ">> \o CommaSep(Tail(args))

RECURSIVE SemiSep(_)
\* "s; t"
SemiSep(stmts) ==
    IF Len(stmts) = 1 THEN stmts[1]
    ELSE stmts[1] \o <<";", " ">> \o SemiSep(Tail(stmts))

BareCall(name, args)      == <<name, "(">> \o CommaSep(args) \o <<")">>
DotCall(recv, name, args) == recv \o <<".">> \o BareCall(name, args)

None_ == <<"None">>
foo_  == <<"'foo'">>
bar_  == <<"'bar'">>
a_    == <<"a">>
b_    == <<"b">>
self_ == <<"self">>
\* {}.get('bar', None)
getNone_ == DotCall(<<"{", "}">>, "get", <<bar_, None_>>)

TargetNames == {FUNC_NAMES[j] : j \in 1..Len(FUNC_NAMES)}

\* calls of the four methods, dotted and bare, with every argument list
CallLines ==
    { IF dot THEN DotCall(self_, n, args) ELSE BareCall(n, args) :
        dot \in BOOLEAN, n \in TargetNames,
        args \in UNION { [1..k -> {None_, foo_}] : k \in 0..MaxArgs } }

CoreStmts ==
    { DotCall(self_, "assertEqual", <<None_, a_>>),
      DotCall(self_, "assertIs", <<None_, b_>>),
      DotCall(self_, "assertEqual", <<a_, b_>>),
      BareCall("assertEqual", <<None_, a_>>),
      <<"'.assertIs('">>,
      DotCall(self_, "assertIsNot", <<a_, None_>>) }

\* several statements on one logical line
SeqLines ==
    { SemiSep(s) : s \in UNION { [1..k -> CoreStmts] : k \in 2..MaxStmts } }

ExceptLines ==
    { <<"except", ":">>,
      <<"except", " ", "Exception", ":">>,
      <<"except", " ", ":">>,
      <<"try", ":">>,
      <<"pass">>,
      <<"pass", ";", " ", "except", ":">> }

RaisesLines ==
    { DotCall(self_, "assertRaises", << <<"NovaException">>, <<"foo">> >>),
      DotCall(self_, "assertRaises", << <<"ExceptionStrangeNotation">>, <<"foo">> >>),
      DotCall(self_, "assertRaises", << <<"Exception">>, <<"foo">> >>),
      DotCall(self_, "assertRaises", << <<"Exception">> >>),
      DotCall(<<"cls">>, "assertRaises", << <<"Exception">>, <<"foo">> >>),
      DotCall(<<"myself">>, "assertRaises", << <<"Exception">> >>),
      BareCall("assertRaises", << <<"Exception">> >>),
      <<"self", ".", "assertRaises", "(", "Exception", " ", ",", " ", "foo", ")">>,
      <<"self", ".", "assertRaises", "(", " ", "Exception", ")">>,
      DotCall(self_, "assertRaises", << <<"Exception", ".", "x">> >>),
      SemiSep(<< a_, DotCall(self_, "assertRaises", << <<"Exception">> >>) >>),
      SemiSep(<< DotCall(self_, "assertRaises", << <<"Exception">> >>),
                 DotCall(self_, "assertRaises", << <<"Exception">>, <<"foo">> >>) >>),
      <<"self", ".", "assertRaises", "(", "Exception", ",">> }

\* the lines of hacking_assert_is_none's docstring
DocLines ==
    { DotCall(self_, "assertEqual", <<foo_, bar_>>),
      DotCall(self_, "assertNotEqual", <<foo_, getNone_>>),
      DotCall(self_, "assertIs", <<foo_, bar_>>),
      DotCall(self_, "assertIsNot", <<foo_, bar_, None_>>),
      BareCall("foo", << DotCall(self_, "assertIsNot", <<foo_, bar_>>) >>),
      DotCall(self_, "assertEqual", <<None_, foo_>>),
      DotCall(self_, "assertNotEqual", <<foo_, None_>>),
      DotCall(self_, "assertIs", <<None_, foo_, bar_>>),
      DotCall(self_, "assertIsNot", <<foo_, None_, bar_>>),
      BareCall("foo", << DotCall(self_, "assertIsNot", <<foo_, None_, bar_>>) >>),
      DotCall(self_, "assertIsNone", <<foo_>>) }

\* other callee shapes, keyword arguments and nesting
ShapeLines ==
    { <<"d", "[", "'k'", "]">> \o <<"(">> \o CommaSep(<<None_, a_>>) \o <<")">>,
      SemiSep(<< <<"d", "[", "'k'", "]", "(", "None", ")">>,
                 DotCall(self_, "assertIs", <<a_, b_>>) >>),
      DotCall(self_, "assertIs", <<a_, b_>>) \o <<"(", "None", ")">>,
      DotCall(self_, "assertIs", <<None_, b_>>) \o <<"(", "a", ")">>,
      DotCall(self_, "assertIs", <<a_, <<"x", "=", "None">> >>),
      BareCall("foo", << <<"x", "=">> \o DotCall(self_, "assertIs", <<None_, a_>>) >>),
      DotCall(DotCall(self_, "assertIs", <<None_, a_>>), "foo", <<>>),
      <<"d", "[">> \o DotCall(self_, "assertIs", <<None_, a_>>) \o <<"]">>,
      DotCall(self_, "assertEqual", <<a_, DotCall(self_, "assertEqual", <<None_, b_>>)>>),
      DotCall(self_, "get", <<None_>>),
      DotCall(<<"None">>, "assertIs", <<a_, b_>>),
      SemiSep(<< DotCall(self_, "assertEqual", <<None_, a_>>),
                 DotCall(self_, "assertIs", <<None_, b_>>),
                 DotCall(self_, "assertNotEqual", <<None_, a_>>),
                 DotCall(self_, "assertIsNot", <<None_, b_>>) >>) }

\* lines ast.parse rejects
BrokenLines ==
    { <<"self", ".", "assertEqual", "(", "None", ",">>,
      DotCall(self_, "assertEqual", << <<"x", "=", "None">>, a_ >>),
      DotCall(self_, "assertIs", <<None_, a_>>) \o <<" ", "b">>,
      <<"foo", "(">>,
      SemiSep(<< DotCall(self_, "assertIsNot", <<a_, None_>>), <<"except", ":">> >>),
      SemiSep(<< <<"'.assertIs('">>, <<"foo", "(", ",", ")">> >>) }

Lines == CallLines \cup SeqLines \cup ExceptLines \cup RaisesLines
            \cup DocLines \cup ShapeLines \cup BrokenLines

\* the lines of the file the host walks through in SpecHost
HostLines ==
    { DotCall(self_, "assertEqual", <<None_, a_>>),
      DotCall(self_, "assertEqual", <<a_, b_>>),
      SemiSep(<< DotCall(self_, "assertEqual", <<a_, b_>>),
                 DotCall(self_, "assertIs", <<None_, b_>>) >>),
      <<"self", ".", "assertEqual", "(", "None", ",">>,
      <<"except", ":">>,
      DotCall(self_, "assertRaises", << <<"Exception">> >>) }

(***************************************************************************)
(* State.                                                                  *)
(*   PY2           six.PY2, fixed when the process starts                  *)
(*   logical_line, noqa   the arguments the host passes to a rule          *)
(*   rule, pc      the function running and where it is                    *)
(*   func_idx      position of hacking_assert_is_none's for loop           *)
(*   checker       the NoneArgChecker most recently constructed            *)
(*   out, raised   diagnostics yielded so far; SyntaxError propagated      *)
(*   parses        calls of ast.parse made by the running rule             *)
(*   ret           argument and return value of a call of is_none          *)
(*   subject, memo the first (logical_line, noqa) of the run and the       *)
(*                 result of the first rule completed on it                *)
(***************************************************************************)
NUM_ARGS_DEFAULT == 2

NoChecker == [func_name |-> "", num_args |-> 0, none_found |-> FALSE]
NoMemo    == [rule |-> "none", out |-> <<>>, raised |-> FALSE,
              again |-> FALSE, between |-> FALSE]

InitWith(lines) ==
    /\ PY2 \in BOOLEAN
    /\ logical_line \in lines
    /\ noqa \in BOOLEAN
    /\ subject = <<logical_line, noqa>>
    /\ rule = "none"
    /\ pc = "idle"
    /\ func_idx = 1
    /\ checker = NoChecker
    /\ out = <<>>
    /\ raised = FALSE
    /\ parses = 0
    /\ ret = [node |-> Pass, value |-> FALSE]
    /\ memo = NoMemo

Init     == InitWith(Lines)
InitHost == InitWith(HostLines)

\* the memo after rule r completed with diagnostics o and error flag e
Remember(r, o, e) ==
    IF <<logical_line, noqa>> = subject /\ memo.rule = "none"
    THEN [rule |-> r, out |-> o, raised |-> e, again |-> FALSE, between |-> FALSE]
    ELSE IF <<logical_line, noqa>> = subject /\ memo.rule = r
    THEN [memo EXCEPT !.again = TRUE]
    ELSE IF memo.rule # "none" /\ ~memo.again
    THEN [memo EXCEPT !.between = TRUE]
    ELSE memo

(***************************************************************************)
(* The host calls hacking_except_format / hacking_except_format_assert     *)
(* and exhausts the generator.                                             *)
(***************************************************************************)
Call_hacking_except_format ==
    /\ pc = "idle"
    /\ rule' = "hacking_except_format"
    /\ out' = hacking_except_format(logical_line, noqa)
    /\ raised' = FALSE
    /\ parses' = 0
    /\ pc' = "done"
    /\ memo' = Remember("hacking_except_format", out', FALSE)
    /\ UNCHANGED <<PY2, logical_line, noqa, func_idx, checker, ret, subject>>

Call_hacking_except_format_assert ==
    /\ pc = "idle"
    /\ rule' = "hacking_except_format_assert"
    /\ out' = hacking_except_format_assert(logical_line, noqa)
    /\ raised' = FALSE
    /\ parses' = 0
    /\ pc' = "done"
    /\ memo' = Remember("hacking_except_format_assert", out', FALSE)
    /\ UNCHANGED <<PY2, logical_line, noqa, func_idx, checker, ret, subject>>

(***************************************************************************)
(* hacking_assert_is_none, one action per pass through its for loop.       *)
(***************************************************************************)
\* logical_line.index('.%s(' % func_name); -1 stands for ValueError
index_of(func_name) == str_index(Text(logical_line), dotted(func_name))

\* mutant: the offset of the "." rather than of the method name
start_offset_Dot(func_name) == index_of(func_name)

\* logical_line.index(...) + 1
start_offset(func_name) == index_of(func_name) + 1

\* mutant: the noqa test is missing
AssertIsNone_Call_IgnoreNoqa ==
    /\ pc = "idle"
    /\ rule' = "hacking_assert_is_none"
    /\ out' = <<>>
    /\ raised' = FALSE
    /\ parses' = 0
    /\ func_idx' = 1
    /\ pc' = "for"
    /\ UNCHANGED <<PY2, logical_line, noqa, checker, ret, subject, memo>>

\* the call: "if noqa: return", else the loop starts
AssertIsNone_Call ==
    /\ pc = "idle"
    /\ rule' = "hacking_assert_is_none"
    /\ out' = <<>>
    /\ raised' = FALSE
    /\ parses' = 0
    /\ func_idx' = 1
    /\ pc' = IF noqa THEN "done" ELSE "for"
    /\ memo' = IF noqa THEN Remember("hacking_assert_is_none", <<>>, FALSE) ELSE memo
    /\ UNCHANGED <<PY2, logical_line, noqa, checker, ret, subject>>

\* except ValueError: continue
AssertIsNone_Continue ==
    /\ pc = "for"
    /\ func_idx <= Len(FUNC_NAMES)
    /\ index_of(FUNC_NAMES[func_idx]) = -1
    /\ func_idx' = func_idx + 1
    /\ UNCHANGED <<PY2, logical_line, noqa, rule, pc, checker, out, raised,
                   parses, ret, subject, memo>>

\* mutant: SyntaxError is caught and the loop goes on
AssertIsNone_SyntaxError_Swallowed ==
    /\ pc = "for"
    /\ func_idx <= Len(FUNC_NAMES)
    /\ index_of(FUNC_NAMES[func_idx]) # -1
    /\ ~ast_parse(logical_line).ok
    /\ checker' = NoneArgChecker(FUNC_NAMES[func_idx], NUM_ARGS_DEFAULT)
    /\ parses' = parses + 1
    /\ func_idx' = func_idx + 1
    /\ UNCHANGED <<PY2, logical_line, noqa, rule, pc, out, raised, ret, subject,
                   memo>>

\* ast.parse raises SyntaxError, which leaves the generator
AssertIsNone_SyntaxError ==
    /\ pc = "for"
    /\ func_idx <= Len(FUNC_NAMES)
    /\ index_of(FUNC_NAMES[func_idx]) # -1
    /\ ~ast_parse(logical_line).ok
    /\ checker' = NoneArgChecker(FUNC_NAMES[func_idx], NUM_ARGS_DEFAULT)
    /\ parses' = parses + 1
    /\ raised' = TRUE
    /\ pc' = "done"
    /\ memo' = Remember("hacking_assert_is_none", out, TRUE)
    /\ UNCHANGED <<PY2, logical_line, noqa, rule, func_idx, out, ret, subject>>

\* mutant: the loop is left after the first method name found in the line
AssertIsNone_Check_Break ==
    /\ pc = "for"
    /\ func_idx <= Len(FUNC_NAMES)
    /\ index_of(FUNC_NAMES[func_idx]) # -1
    /\ LET start == start_offset(FUNC_NAMES[func_idx])
           tree  == ast_parse(logical_line)
       IN
       /\ tree.ok
       /\ checker' = visit(NoneArgChecker(FUNC_NAMES[func_idx], NUM_ARGS_DEFAULT),
                           tree.node)
       /\ out' = IF checker'.none_found THEN Append(out, <<start, H203>>) ELSE out
    /\ parses' = parses + 1
    /\ func_idx' = Len(FUNC_NAMES) + 1
    /\ UNCHANGED <<PY2, logical_line, noqa, rule, pc, raised, ret, subject, memo>>

\* the line parses: visit the tree, yield if a None was found
AssertIsNone_Check ==
    /\ pc = "for"
    /\ func_idx <= Len(FUNC_NAMES)
    /\ index_of(FUNC_NAMES[func_idx]) # -1
    /\ LET start == start_offset(FUNC_NAMES[func_idx])
           tree  == ast_parse(logical_line)
       IN
       /\ tree.ok
       /\ checker' = visit(NoneArgChecker(FUNC_NAMES[func_idx], NUM_ARGS_DEFAULT),
                           tree.node)
       /\ out' = IF checker'.none_found THEN Append(out, <<start, H203>>) ELSE out
    /\ parses' = parses + 1
    /\ func_idx' = func_idx + 1
    /\ UNCHANGED <<PY2, logical_line, noqa, rule, pc, raised, ret, subject, memo>>

\* the loop is exhausted
AssertIsNone_Return ==
    /\ pc = "for"
    /\ func_idx > Len(FUNC_NAMES)
    /\ pc' = "done"
    /\ memo' = Remember("hacking_assert_is_none", out, FALSE)
    /\ UNCHANGED <<PY2, logical_line, noqa, rule, func_idx, checker, out, raised,
                   parses, ret, subject>>

(***************************************************************************)
(* NoneArgChecker and is_none used on their own.                           *)
(***************************************************************************)
RECURSIVE walk_each(_)
\* ast.walk: a node and all its descendants
walk(node) == <<node>> \o walk_each(iter_child_nodes(node))
walk_each(nodes) ==
    IF Len(nodes) = 0 THEN <<>>
    ELSE walk(Head(nodes)) \o walk_each(Tail(nodes))

\* NoneArgChecker(func_name, num_args=k).visit(ast.parse(logical_line))
Call_NoneArgChecker ==
    /\ pc = "idle"
    /\ LET tree == ast_parse(logical_line) IN
       /\ tree.ok
       /\ \E func_name \in TargetNames \cup {"get"}, k \in 0..MaxK :
              checker' = visit(NoneArgChecker(func_name, k), tree.node)
    /\ rule' = "NoneArgChecker"
    /\ pc' = "done"
    /\ UNCHANGED <<PY2, logical_line, noqa, func_idx, out, raised, parses, ret,
                   subject, memo>>

\* nodes built by hand rather than by the parser; Python 2 has no NameConstant
HandNodes ==
    <<Name("None"), Name("a"), Str("'foo'")>>
        \o (IF PY2 THEN <<>>
            ELSE <<NameConstant("None"), NameConstant("True"), NameConstant("False")>>)

\* is_none(node) for a node of the line's tree or a hand-built one
Call_is_none ==
    /\ pc = "idle"
    /\ LET tree  == ast_parse(logical_line)
           nodes == (IF tree.ok THEN walk(tree.node) ELSE <<>>) \o HandNodes
       IN \E j \in 1..Len(nodes) :
              ret' = [node |-> nodes[j], value |-> is_none(nodes[j])]
    /\ rule' = "is_none"
    /\ pc' = "done"
    /\ UNCHANGED <<PY2, logical_line, noqa, func_idx, checker, out, raised, parses,
                   subject, memo>>

(***************************************************************************)
(* The host moves on to another logical line of the file.                  *)
(***************************************************************************)
Host_NextLine ==
    /\ pc = "done"
    /\ logical_line' \in HostLines
    /\ noqa' \in BOOLEAN
    /\ rule' = "none"
    /\ pc' = "idle"
    /\ func_idx' = 1
    /\ out' = <<>>
    /\ raised' = FALSE
    /\ parses' = 0
    /\ UNCHANGED <<PY2, checker, ret, subject, memo>>

Rules ==
    \/ Call_hacking_except_format
    \/ Call_hacking_except_format_assert
    \/ AssertIsNone_Call
    \/ AssertIsNone_Continue
    \/ AssertIsNone_SyntaxError
    \/ AssertIsNone_Check
    \/ AssertIsNone_Return

\* one logical line, one call of a rule, of NoneArgChecker or of is_none
Next ==
    \/ Rules
    \/ Call_NoneArgChecker
    \/ Call_is_none

\* the host feeds line after line to the rules
NextHost ==
    \/ Rules
    \/ Host_NextLine

Spec     == Init /\ [][Next]_vars
SpecHost == InitHost /\ [][NextHost]_vars

(***************************************************************************)
(* Vocabulary of the properties, stated on the line's characters and on    *)
(* the set of nodes of its tree rather than by the code's scans.           *)
(***************************************************************************)
T    == Text(logical_line)
Tree == ast_parse(logical_line)

\* sub occurs in s at 0-based position p
Occurs(s, sub, p) ==
    /\ p >= 0
    /\ p + Len(sub) <= Len(s)
    /\ \A j \in 1..Len(sub) : s[p + j] = sub[j]

Contains(s, sub) == \E p \in 0..Len(s) : Occurs(s, sub, p)

FirstOcc(s, sub) ==
    CHOOSE p \in 0..Len(s) :
        Occurs(s, sub, p) /\ \A q \in 0..(p - 1) : ~Occurs(s, sub, q)

\* ".n(" for a method name n
Dotted(n) == <<".">> \o Chars(n) \o <<"(">>

\* the method name n occurs in the line's text as ".n("
Present(n) == Contains(T, Dotted(n))

\* the null literal of the dialect in effect
NullLiteral(node) ==
    IF PY2 THEN node.kind = "Name" /\ node.id = "None"
    ELSE node.kind = "NameConstant" /\ node.value = "None"

\* node is a call of n, as a method (x.n(...)) or by bare name (n(...))
CallOf(node, n) ==
    /\ node.kind = "Call"
    /\ \/ node.func.kind = "Attribute" /\ node.func.attr = n
       \/ node.func.kind = "Name" /\ node.func.id = n

\* some call of n in the tree has a null literal among its first k
\* positional arguments
HasNoneCall(tree, n, k) ==
    LET w == walk(tree) IN
    \E j \in 1..Len(w) :
        /\ CallOf(w[j], n)
        /\ \E i \in 1..Len(w[j].args) : i <= k /\ NullLiteral(w[j].args[i])

Done(r) == pc = "done" /\ rule = r

LineRules == {"hacking_except_format", "hacking_except_format_assert",
              "hacking_assert_is_none"}

\* the H203 diagnostic of method name n
DiagOf(n) == <<FirstOcc(T, Dotted(n)) + 1, H203>>

\* the names among the first m of FUNC_NAMES that occur in the line
PresentUpTo(m) == {j \in 1..m : Present(FUNC_NAMES[j])}

RECURSIVE DiagsUpTo(_)
\* the diagnostics of the first m names, in the order of FUNC_NAMES
DiagsUpTo(m) ==
    IF m = 0 THEN <<>>
    ELSE IF Present(FUNC_NAMES[m]) /\ HasNoneCall(Tree.node, FUNC_NAMES[m], 2)
    THEN Append(DiagsUpTo(m - 1), DiagOf(FUNC_NAMES[m]))
    ELSE DiagsUpTo(m - 1)

(***************************************************************************)
(* C1: with noqa true each of the three rules ends with no diagnostic,     *)
(* whatever the line; hacking_assert_is_none never enters its loop, never  *)
(* calls ast.parse and raises nothing, even on a line that contains        *)
(* ".assertEqual(" and does not parse.                                     *)
(***************************************************************************)
C1_NoqaYieldsNothing ==
    (noqa /\ rule \in LineRules) =>
        /\ pc # "for"
        /\ out = <<>>
        /\ ~raised
        /\ parses = 0

C1_Witness ==
    /\ Done("hacking_assert_is_none")
    /\ noqa
    /\ Present("assertEqual")
    /\ ~Tree.ok
    /\ out = <<>>

(***************************************************************************)
(* C2: with noqa false hacking_except_format yields exactly <<6, H201>>    *)
(* if the line's first seven characters are "except:", and nothing for     *)
(* every other line.                                                       *)
(***************************************************************************)
StartsWithExcept ==
    /\ Len(T) >= 7
    /\ <<T[1], T[2], T[3], T[4], T[5], T[6], T[7]>>
         = <<"e", "x", "c", "e", "p", "t", ":">>

C2_BareExcept ==
    (Done("hacking_except_format") /\ ~noqa) =>
        /\ ~raised
        /\ out = IF StartsWithExcept THEN << <<6, H201>> >> ELSE <<>>

C2_Witness ==
    /\ Done("hacking_except_format")
    /\ ~noqa
    /\ StartsWithExcept
    /\ out = << <<6, H201>> >>

(***************************************************************************)
(* C3, as stated: with noqa false hacking_except_format_assert yields      *)
(* exactly <<1, H202>> if and only if the line invokes a method named      *)
(* assertRaises whose first argument is exactly Exception (stated here for *)
(* the lines that parse).                                                  *)
(***************************************************************************)
InvokesAssertRaisesException ==
    LET w == walk(Tree.node) IN
    \E j \in 1..Len(w) :
        /\ w[j].kind = "Call"
        /\ w[j].func.kind = "Attribute"
        /\ w[j].func.attr = "assertRaises"
        /\ Len(w[j].args) >= 1
        /\ w[j].args[1].kind = "Name"
        /\ w[j].args[1].id = "Exception"

RaisesText == Text(<<"self", ".", "assertRaises", "(", "Exception">>)

TextMatchesAt(p) ==
    /\ Occurs(T, RaisesText, p)
    /\ p + Len(RaisesText) < Len(T)
    /\ T[p + Len(RaisesText) + 1] \in {",", ")"}

C4_DiagnosticPerName ==
    (Done("hacking_assert_is_none") /\ ~noqa /\ Tree.ok) =>
        /\ ~raised
        /\ \A n \in TargetNames :
             (Present(n) /\ \E j \in 1..Len(out) : out[j] = DiagOf(n))
                <=> (Present(n) /\ HasNoneCall(Tree.node, n, 2))
        /\ \A j \in 1..Len(out) :
             \E n \in TargetNames : Present(n) /\ out[j] = DiagOf(n)
        /\ \A j, k \in 1..Len(out) : j # k => out[j] # out[k]

\* two names occur, only one of them with a None: one diagnostic
C4_Witness ==
    /\ Done("hacking_assert_is_none")
    /\ ~noqa
    /\ Tree.ok
    /\ \E n, m \in TargetNames :
          /\ Present(n) /\ HasNoneCall(Tree.node, n, 2)
          /\ Present(m) /\ ~HasNoneCall(Tree.node, m, 2)
          /\ out = << DiagOf(n) >>

(***************************************************************************)
(* C5: after NoneArgChecker(func_name, num_args=k).visit(tree), none_found *)
(* is true if and only if the tree holds, at any depth, a call whose       *)
(* callee is an Attribute or a Name called func_name with a null literal   *)
(* at a positional index below min(k, number of positional arguments).     *)
(***************************************************************************)
C5_NoneFoundIff ==
    Done("NoneArgChecker") =>
        (checker.none_found
            <=> HasNoneCall(Tree.node, checker.func_name, checker.num_args))

\* a target call with a None only at a positional index >= k, or only as a
\* keyword argument: not found
C5_Witness ==
    /\ Done("NoneArgChecker")
    /\ ~checker.none_found
    /\ checker.num_args >= 1
    /\ LET w == walk(Tree.node) IN
       \E j \in 1..Len(w) :
           /\ CallOf(w[j], checker.func_name)
           /\ \E i \in 1..Len(w[j].args) :
                 i > checker.num_args /\ NullLiteral(w[j].args[i])

(***************************************************************************)
(* C6: with noqa false, a line that contains ".n(" for one of the four     *)
(* names and does not parse ends in the propagated SyntaxError with no     *)
(* diagnostic before it; a line that contains none of them is never parsed *)
(* and yields nothing without error, whether it parses or not.             *)
(***************************************************************************)
AnyPresent == \E n \in TargetNames : Present(n)

C6_ParseErrorPropagates ==
    (Done("hacking_assert_is_none") /\ ~noqa) =>
        /\ (AnyPresent /\ ~Tree.ok) => (raised /\ out = <<>>)
        /\ ~AnyPresent => (~raised /\ out = <<>> /\ parses = 0)
        /\ raised => ~Tree.ok

C6_Witness ==
    /\ Done("hacking_assert_is_none")
    /\ ~noqa
    /\ AnyPresent
    /\ ~Tree.ok
    /\ raised

(***************************************************************************)
(* C7: is_none(node) is true exactly for a Name whose id is "None" in the  *)
(* Python 2 dialect and exactly for a NameConstant whose value is None     *)
(* otherwise; every other node gives false.                                *)
(***************************************************************************)
C7_IsNone ==
    Done("is_none") =>
        /\ ret.value \in BOOLEAN
        /\ PY2 => (ret.value <=> (ret.node.kind = "Name" /\ ret.node.id = "None"))
        /\ ~PY2 => (ret.value <=> (ret.node.kind = "NameConstant"
                                     /\ ret.node.value = "None"))

\* a plain Name called None in the dedicated-node dialect: false
C7_Witness ==
    /\ Done("is_none")
    /\ ~PY2
    /\ ret.node.kind = "Name"
    /\ ret.node.id = "None"
    /\ ~ret.value

(***************************************************************************)
(* C8: a rule run again on the (logical_line, noqa) pair it was first run  *)
(* on, with any other invocations in between, ends with the same           *)
(* diagnostics and the same error as the first time.                       *)
(***************************************************************************)
C8_Idempotent ==
    (pc = "done" /\ <<logical_line, noqa>> = subject /\ rule = memo.rule) =>
        /\ out = memo.out
        /\ raised = memo.raised

\* hacking_assert_is_none run a second time on the line it was first run
\* on, where it scans and finds nothing, with another invocation in between
C8_Witness ==
    /\ Done("hacking_assert_is_none")
    /\ <<logical_line, noqa>> = subject
    /\ memo.rule = rule
    /\ memo.again
    /\ memo.between
    /\ ~noqa
    /\ AnyPresent
    /\ out = <<>>
    /\ ~raised

(***************************************************************************)
(* C9, as stated: only the first method name found in the line triggers a  *)
(* parse-and-scan, so one invocation parses at most once and yields at     *)
(* most one H203 diagnostic (stated here for the lines in which every      *)
(* ".name(" is a method call, none the content of a string literal).       *)
(***************************************************************************)
GateTextInString ==
    \E j \in 1..Len(logical_line) : logical_line[j] = "'.assertIs('"

C9_AsStated ==
    (rule = "hacking_assert_is_none" /\ ~GateTextInString) =>
        (parses <= 1 /\ Len(out) <= 1)

(***************************************************************************)
(* C9, amended: the four names are tried in the fixed order and every name *)
(* that occurs in the line as ".name(" triggers its own parse-and-scan:    *)
(* on a line that parses, the line has been parsed once per name that      *)
(* occurs among those tried so far (at most four times) and the            *)
(* diagnostics so far are those of the names tried so far, in that order,  *)
(* at most one per name; on a line that does not parse there is at most    *)
(* one parse.                                                              *)
(***************************************************************************)
C9_EveryPresentName ==
    (rule = "hacking_assert_is_none" /\ ~noqa) =>
        LET tried == IF pc = "idle" THEN 0 ELSE func_idx - 1 IN
        IF Tree.ok
        THEN /\ parses = Cardinality(PresentUpTo(tried))
             /\ out = DiagsUpTo(tried)
             /\ Len(out) <= parses
             /\ parses <= Len(FUNC_NAMES)
        ELSE parses <= 1 /\ out = <<>>

\* two names occur, each with a None: two parses, two diagnostics
C9_Witness ==
    /\ Done("hacking_assert_is_none")
    /\ logical_line = SemiSep(<< DotCall(self_, "assertEqual", <<None_, a_>>),
                                 DotCall(self_, "assertIs", <<None_, b_>>) >>)
    /\ parses = 2
    /\ out = << <<5, H203>>, <<32, H203>> >>

(***************************************************************************)
(* C10: the textual gate and the tree scan are not tied to the same call.  *)
(* (a) a method name that does not occur as ".n(" gets no diagnostic even  *)
(* when n is called by bare name with a None: there are exactly as many    *)
(* diagnostics as names that occur and have a None call.  (b) when ".n("   *)
(* occurs and any call of n, method or bare, has a None among its first    *)
(* two arguments, H203 is yielded at the first occurrence of ".n(" plus 1, *)
(* whichever call that occurrence belongs to.                              *)
(***************************************************************************)
C10_GateAndScanUntied ==
    (Done("hacking_assert_is_none") /\ ~noqa /\ Tree.ok) =>
        /\ Len(out) = Cardinality({n \in TargetNames :
                                      Present(n) /\ HasNoneCall(Tree.node, n, 2)})
        /\ (\A n \in TargetNames : ~Present(n)) => out = <<>>
        /\ \A n \in TargetNames :
             (Present(n) /\ HasNoneCall(Tree.node, n, 2)) =>
                 \E j \in 1..Len(out) : out[j] = DiagOf(n)

\* ".assertEqual(" first occurs in a call without None, the None is in a
\* later bare-name call: the diagnostic points at the first call
C10_Witness ==
    /\ Done("hacking_assert_is_none")
    /\ ~noqa
    /\ logical_line = SemiSep(<< DotCall(self_, "assertEqual", <<a_, b_>>),
                                 BareCall("assertEqual", <<None_, a_>>) >>)
    /\ out = << <<5, H203>> >>
====
